---- MODULE Spec2Model ----
(***************************************************************************)
(* A model of tyg_template: the Error value (src/error.rs), its four       *)
(* construction macros, the Counter iterator and the three demonstration   *)
(* commands driven by run() and main() (src/lib.rs, src/main.rs).          *)
(*                                                                         *)
(* Rust strings are TLA+ strings; format! is modelled by substitution of   *)
(* "{}" holes, so concatenations and prefixes are computed, not assumed.   *)
(***************************************************************************)
EXTENDS Integers, Sequences, FiniteSets, TLC

VARIABLES
    disclose,   \* cfg!(feature = "disclose"): fixed by the build
    \* ---- one process run: main() -> run() -> a demo function
    argv,       \* the parsed command line
    pc,         \* position of the process
    stdout,     \* lines written by println!
    stderr,     \* lines written by eprintln!
    counter,    \* the Counter owned by recursive_fail_demo
    nexts,      \* number of next() calls made by the for loop
    opened,     \* outcome of File::open in file_fail_demo
    demo,       \* value returned by the demo function
    answer,     \* value returned by run()
    \* ---- Counter objects driven directly through Iterator::next
    ctrs,
    \* ---- the Error API called directly (macros, From, fmt, source)
    call,       \* the last construction call and its arguments
    val,        \* the value that call produced
    shown       \* what Display / Debug / source() returned for val

vars == <<disclose, argv, pc, stdout, stderr, counter, nexts, opened, demo,
          answer, ctrs, call, val, shown>>

progVars == <<argv, pc, stdout, stderr, counter, nexts, opened, demo, answer>>
errVars == <<call, val, shown>>

(***************************************************************************)
(* Bounds                                                                  *)
(***************************************************************************)
MaxArgLen == 2      \* longest interpolated argument text
MaxPathLen == 2     \* longest PATH, in path units
NumCounters == 2    \* Counter objects driven directly
MaxCalls == 13      \* next() calls made on each of them

(***************************************************************************)
(* Values                                                                  *)
(***************************************************************************)
Null == [tag |-> "null"]
Unit == [tag |-> "unit"]

Ok(v) == [tag |-> "Ok", value |-> v]
Err(e) == [tag |-> "Err", error |-> e]
Some(x) == [tag |-> "Some", item |-> x]
None == [tag |-> "None"]

\* enum Error { Error(String), File(io::Error) }
ErrorError(msg) == [tag |-> "Error", msg |-> msg]
ErrorFile(e) == [tag |-> "File", cause |-> e]

\* std::io::Error values: two raised by the operating system, one built
\* by std from a fixed message.
ENOENT == [repr |-> "Os", code |-> 2, kind |-> "NotFound",
           message |-> "No such file or directory"]
EACCES == [repr |-> "Os", code |-> 13, kind |-> "PermissionDenied",
           message |-> "Permission denied"]
ENUL == [repr |-> "SimpleMessage", code |-> 0, kind |-> "InvalidInput",
         message |-> "file name contained an unexpected NUL byte"]
IoErrors == {ENOENT, EACCES, ENUL}

\* <io::Error as Display>::fmt
IoDisplay(e) ==
    IF e.repr = "Os"
    THEN e.message \o " (os error " \o ToString(e.code) \o ")"
    ELSE e.message

\* <io::Error as Debug>::fmt
IoDebug(e) ==
    IF e.repr = "Os"
    THEN "Os { code: " \o ToString(e.code) \o ", kind: " \o e.kind
         \o ", message: " \o ToString(e.message) \o " }"
    ELSE "Error { kind: " \o e.kind \o ", message: "
         \o ToString(e.message) \o " }"

(***************************************************************************)
(* format!: every "{}" of the template is replaced by the next argument.   *)
(***************************************************************************)
RECURSIVE format(_, _)
format(t, args) ==
    IF Len(t) = 0 THEN ""
    ELSE IF Len(t) >= 2 /\ SubSeq(t, 1, 2) = "{}"
         THEN Head(args) \o format(SubSeq(t, 3, Len(t)), Tail(args))
         ELSE SubSeq(t, 1, 1) \o format(SubSeq(t, 2, Len(t)), args)

\* file!(), line!(), column!() of a macro invocation
Site(line, col) == [file |-> "src/lib.rs", line |-> line, column |-> col]

\* format!("{}:{}:{}: {}", file!(), line!(), column!(), details)
error_text(site, details) ==
    format("{}:{}:{}: {}",
           <<site.file, ToString(site.line), ToString(site.column), details>>)

\* option_err!
option_err(site, t, args) ==
    LET details == format(t, args)
    IN  ErrorError(error_text(site, details))

\* option_err_bare!
option_err_bare(site, t, args) ==
    IF disclose
    THEN LET details == format(t, args)
         IN  ErrorError(error_text(site, details))
    ELSE LET details == format(t, args)
         IN  ErrorError(details)

\* faulty variant of result_err!: discloses only when the flag is set
result_err_flagged(site, t, args) ==
    IF disclose
    THEN LET details == format(t, args)
         IN  Err(ErrorError(error_text(site, details)))
    ELSE LET details == format(t, args)
         IN  Err(ErrorError(details))

\* result_err!
result_err(site, t, args) ==
    LET details == format(t, args)
    IN  Err(ErrorError(error_text(site, details)))

\* faulty variant of result_err_bare!: the flag is ignored
result_err_bare_always(site, t, args) ==
    LET details == format(t, args)
    IN  Err(ErrorError(details))

\* result_err_bare!
result_err_bare(site, t, args) ==
    IF disclose
    THEN LET details == format(t, args)
         IN  Err(ErrorError(error_text(site, details)))
    ELSE LET details == format(t, args)
         IN  Err(ErrorError(details))

\* formatter!(self, f) expanded inside impl fmt::Display: the File arm's
\* e.fmt(f) resolves to the trait being implemented, Display.
Display(e) ==
    IF e.tag = "Error" THEN format("{}", <<e.msg>>)
    ELSE IoDisplay(e.cause)

\* formatter!(self, f) expanded inside impl fmt::Debug: the Error arm is
\* write!(f, "{}", e) whatever the trait; the File arm's e.fmt(f) resolves
\* to the trait being implemented, Debug.
Debug(e) ==
    IF e.tag = "Error" THEN format("{}", <<e.msg>>)
    ELSE IoDebug(e.cause)

\* faulty variant of source(): no variant exposes a cause
source_absent(e) == None

\* <Error as std::error::Error>::source
source(e) ==
    IF e.tag = "Error" THEN None
    ELSE Some(e.cause)

\* faulty variant of From: the platform error is turned into its text
from_text(err) == ErrorError(IoDisplay(err))

\* <Error as From<io::Error>>::from
from(err) == ErrorFile(err)

\* the `?` operator applied to a Result<T, io::Error> in a function
\* returning Result<_, Error>: the error goes through From
TryIo(r) == IF r.tag = "Err" THEN Err(from(r.error)) ELSE r

(***************************************************************************)
(* lib.rs: the demonstration functions                                     *)
(***************************************************************************)
\* pub fn error_demo(bare: bool) -> Result<()>
error_demo(bare) ==
    IF bare
    THEN result_err_bare(Site(175, 9),
             "Error thrown to demonstrate the error handling process", <<>>)
    ELSE result_err(Site(177, 9),
             "Error thrown to demonstrate the error handling process", <<>>)

\* Counter::new
Counter_new == [count |-> 0]

\* faulty variant of next(): only the fifth item is a failure
Counter_next_once(self) ==
    IF self.count < 11
    THEN LET c == self.count + 1
         IN  IF c = 5
             THEN [self |-> [count |-> c],
                   ret |-> Some(result_err(Site(203, 22),
                               "Failed at cycle {}", <<ToString(c)>>))]
             ELSE [self |-> [count |-> c], ret |-> Some(Ok(c))]
    ELSE [self |-> self, ret |-> None]

\* faulty variant of next(): the exhaustion test is off by one
Counter_next_le(self) ==
    IF self.count <= 11
    THEN LET c == self.count + 1
         IN  IF c >= 5
             THEN [self |-> [count |-> c],
                   ret |-> Some(result_err(Site(203, 22),
                               "Failed at cycle {}", <<ToString(c)>>))]
             ELSE [self |-> [count |-> c], ret |-> Some(Ok(c))]
    ELSE [self |-> self, ret |-> None]

\* <Counter as Iterator>::next: the counter after the call and the
\* Option<Result<u32>> it returns.  The increment is guarded by count < 11,
\* so the u32 addition is the mathematical one.
Counter_next(self) ==
    IF self.count < 11
    THEN LET c == self.count + 1
         IN  IF c >= 5
             THEN [self |-> [count |-> c],
                   ret |-> Some(result_err(Site(203, 22),
                               "Failed at cycle {}", <<ToString(c)>>))]
             ELSE [self |-> [count |-> c], ret |-> Some(Ok(c))]
    ELSE [self |-> self, ret |-> None]

\* A PATH is an OsStr: a sequence of units, each a valid piece of text or
\* a byte that is not valid UTF-8.
BadByte == "\\xFF"
PathUnits == {"f", "/", BadByte}
Paths == UNION {[1..n -> PathUnits] : n \in 1..MaxPathLen}

\* OsStr::to_string_lossy: invalid bytes become U+FFFD
RECURSIVE to_string_lossy(_)
to_string_lossy(path) ==
    IF path = <<>> THEN ""
    ELSE (IF Head(path) = BadByte THEN "<U+FFFD>" ELSE Head(path))
         \o to_string_lossy(Tail(path))

\* the outcomes of File::open(path)
Handle == [tag |-> "File"]
OpenErrors == {ENOENT, EACCES}
OpenOutcomes == {Ok(Handle)} \cup {Err(e) : e \in OpenErrors}

\* faulty variant of file_fail_demo: the better message is built bare
file_fail_demo_bare(better, path, file) ==
    IF better
    THEN LET r == IF file.tag = "Err"
                  THEN result_err_bare(Site(261, 26), "{}: {}",
                           <<to_string_lossy(path), IoDisplay(file.error)>>)
                  ELSE file
         IN  IF r.tag = "Err" THEN r ELSE Ok(Unit)
    ELSE LET r == TryIo(file)
         IN  IF r.tag = "Err" THEN r ELSE Ok(Unit)

\* pub fn file_fail_demo(better: bool, path: &OsStr) -> Result<()>,
\* given the outcome `file` of File::open(path)
file_fail_demo(better, path, file) ==
    IF better
    THEN LET r == IF file.tag = "Err"
                  THEN result_err(Site(261, 26), "{}: {}",
                           <<to_string_lossy(path), IoDisplay(file.error)>>)
                  ELSE file
         IN  IF r.tag = "Err" THEN r ELSE Ok(Unit)
    ELSE LET r == TryIo(file)
         IN  IF r.tag = "Err" THEN r ELSE Ok(Unit)

(***************************************************************************)
(* One process run                                                         *)
(***************************************************************************)
\* what clap hands to run(), or "help" when clap itself ends the process
\* (--help, --version, a missing or unknown subcommand, a missing PATH)
Commands ==
    {[cmd |-> "fail", bare |-> b, better |-> FALSE, path |-> <<>>] :
        b \in BOOLEAN}
    \cup {[cmd |-> "recursive_fail", bare |-> FALSE, better |-> FALSE,
           path |-> <<>>]}
    \cup {[cmd |-> "file_fail", bare |-> FALSE, better |-> b, path |-> p] :
        b \in BOOLEAN, p \in Paths}
    \cup {[cmd |-> "help", bare |-> FALSE, better |-> FALSE, path |-> <<>>]}

NotDisplayed == "This should not be displayed because an error was forced..."
NowSee == "Now see what happens when an invalid file is entered"
Completed == "The process completed normally"
Header == "We need to fail at cycle 5"

ProgIdle ==
    /\ argv = Null
    /\ pc = "idle"
    /\ stdout = <<>>
    /\ stderr = <<>>
    /\ counter = Null
    /\ nexts = 0
    /\ opened = Null
    /\ demo = Null
    /\ answer = Null

CtrIdle == ctrs = <<>>

NoCall == [op |-> "none"]

ErrIdle ==
    /\ call = NoCall
    /\ val = Null
    /\ shown = Null

\* the process has been started: main() has called run()
Init ==
    /\ disclose \in BOOLEAN
    /\ argv \in Commands
    /\ pc = "run"
    /\ stdout = <<>>
    /\ stderr = <<>>
    /\ counter = Null
    /\ nexts = 0
    /\ opened = Null
    /\ demo = Null
    /\ answer = Null
    /\ CtrIdle
    /\ ErrIdle

\* run(): cli().get_matches() and the match on the subcommand
run_matches ==
    /\ pc = "run"
    /\ pc' = IF argv.cmd = "help" THEN "exit" ELSE argv.cmd
    /\ UNCHANGED <<disclose, argv, stdout, stderr, counter, nexts, opened,
                   demo, answer, ctrs, errVars>>

\* run(): error_demo(bare)
run_fail ==
    /\ pc = "fail"
    /\ demo' = error_demo(argv.bare)
    /\ pc' = "try"
    /\ UNCHANGED <<disclose, argv, stdout, stderr, counter, nexts, opened,
                   answer, ctrs, errVars>>

\* recursive_fail_demo(): the header line and Counter::new()
recursive_fail_demo_enter ==
    /\ pc = "recursive_fail"
    /\ stdout' = Append(stdout, Header)
    /\ counter' = Counter_new
    /\ pc' = "for"
    /\ UNCHANGED <<disclose, argv, stderr, nexts, opened, demo, answer,
                   ctrs, errVars>>

\* faulty variant of the loop: a failed item is skipped, not propagated
recursive_fail_demo_for_skip ==
    /\ pc = "for"
    /\ LET r == Counter_next(counter)
       IN  /\ counter' = r.self
           /\ nexts' = nexts + 1
           /\ IF r.ret = None
              THEN /\ demo' = Ok(Unit)
                   /\ pc' = "try"
                   /\ UNCHANGED stdout
              ELSE IF r.ret.item.tag = "Err"
              THEN /\ pc' = "for"
                   /\ UNCHANGED <<stdout, demo>>
              ELSE /\ stdout' = Append(stdout,
                          format("Cycle {}", <<ToString(r.ret.item.value)>>))
                   /\ pc' = "for"
                   /\ UNCHANGED demo
    /\ UNCHANGED <<disclose, argv, stderr, opened, answer, ctrs, errVars>>

\* recursive_fail_demo(): one turn of `for n in counter`, that is one
\* next() call, then `n?` and the println!, or the end of the loop
recursive_fail_demo_for ==
    /\ pc = "for"
    /\ LET r == Counter_next(counter)
       IN  /\ counter' = r.self
           /\ nexts' = nexts + 1
           /\ IF r.ret = None
              THEN /\ demo' = Ok(Unit)
                   /\ pc' = "try"
                   /\ UNCHANGED stdout
              ELSE IF r.ret.item.tag = "Err"
              THEN /\ demo' = r.ret.item
                   /\ pc' = "try"
                   /\ UNCHANGED stdout
              ELSE /\ stdout' = Append(stdout,
                          format("Cycle {}", <<ToString(r.ret.item.value)>>))
                   /\ pc' = "for"
                   /\ UNCHANGED demo
    /\ UNCHANGED <<disclose, argv, stderr, opened, answer, ctrs, errVars>>

\* run(): file_fail_demo(better, path); the file system decides whether
\* File::open succeeds
run_file_fail ==
    /\ pc = "file_fail"
    /\ \E file \in OpenOutcomes :
          /\ opened' = file
          /\ demo' = file_fail_demo(argv.better, argv.path, file)
    /\ pc' = "try"
    /\ UNCHANGED <<disclose, argv, stdout, stderr, counter, nexts, answer,
                   ctrs, errVars>>

\* faulty variant of run(): the failure is swallowed
run_try_swallow ==
    /\ pc = "try"
    /\ stdout' = Append(stdout,
           IF argv.cmd = "file_fail" THEN NowSee ELSE NotDisplayed)
    /\ answer' = Ok(Unit)
    /\ pc' = "main"
    /\ UNCHANGED <<disclose, argv, stderr, counter, nexts, opened, demo,
                   ctrs, errVars>>

\* run(): the `?` on the demo's result, the println! after it, Ok(())
run_try ==
    /\ pc = "try"
    /\ IF demo.tag = "Err"
       THEN /\ answer' = demo
            /\ UNCHANGED stdout
       ELSE /\ stdout' = Append(stdout,
                   IF argv.cmd = "file_fail" THEN NowSee ELSE NotDisplayed)
            /\ answer' = Ok(Unit)
    /\ pc' = "main"
    /\ UNCHANGED <<disclose, argv, stderr, counter, nexts, opened, demo,
                   ctrs, errVars>>

\* main(): the match on run()'s result
main ==
    /\ pc = "main"
    /\ IF answer.tag = "Ok"
       THEN /\ stdout' = Append(stdout, Completed)
            /\ UNCHANGED stderr
       ELSE /\ stderr' = Append(stderr,
                   format("tyg_template: {}", <<Display(answer.error)>>))
            /\ UNCHANGED stdout
    /\ pc' = "done"
    /\ UNCHANGED <<disclose, argv, counter, nexts, opened, demo, answer,
                   ctrs, errVars>>

Next ==
    \/ run_matches
    \/ run_fail
    \/ recursive_fail_demo_enter
    \/ recursive_fail_demo_for
    \/ run_file_fail
    \/ run_try
    \/ main

Spec == Init /\ [][Next]_vars

(***************************************************************************)
(* Counter objects driven by repeated next() calls, with no early exit     *)
(***************************************************************************)
InitCounter ==
    /\ disclose \in BOOLEAN
    /\ ProgIdle
    /\ ErrIdle
    /\ ctrs = [i \in 1..NumCounters |->
                  [self |-> Counter_new, items |-> <<>>]]

\* one more next() on the i-th Counter; items records what each call
\* returned
next_call(i) ==
    /\ Len(ctrs[i].items) < MaxCalls
    /\ LET r == Counter_next(ctrs[i].self)
       IN  ctrs' = [ctrs EXCEPT ![i] =
                       [self |-> r.self, items |-> Append(@.items, r.ret)]]
    /\ UNCHANGED <<disclose, progVars, errVars>>

NextCounter == \E i \in 1..NumCounters : next_call(i)

SpecCounter == InitCounter /\ [][NextCounter]_vars

(***************************************************************************)
(* The Error API called directly: the four macros, From, error_demo, and   *)
(* then Display, Debug and source() on the value they produced.  Each run  *)
(* builds one value and renders it.                                        *)
(***************************************************************************)
ArgChars == {"x", ":"}

RECURSIVE Strs(_)
Strs(n) ==
    IF n = 0 THEN {""}
    ELSE Strs(n - 1) \cup {s \o c : s \in Strs(n - 1), c \in ArgChars}

ArgValues == Strs(MaxArgLen)

\* format templates used with the macros in the repository and its
\* documentation, and the number of "{}" each takes
Templates == {"{}", "Oh dear - {}", "{}: {}", "No path specified"}

RECURSIVE Holes(_)
Holes(t) ==
    IF Len(t) < 2 THEN 0
    ELSE IF SubSeq(t, 1, 2) = "{}" THEN 1 + Holes(SubSeq(t, 3, Len(t)))
    ELSE Holes(SubSeq(t, 2, Len(t)))

FormatCalls ==
    UNION {{[t |-> t, args |-> a] : a \in [1..Holes(t) -> ArgValues]} :
              t \in Templates}

Sites == {Site(142, 70), Site(261, 26)}

Text(s) == [tag |-> "text", text |-> s]
NotShown == [display |-> Null, debug |-> Null, source |-> Null]

\* the Error inside a macro's value: result_* give Err(e), option_* give e
ErrOf(v) == IF v.tag = "Err" THEN v.error ELSE v

InitErr ==
    /\ disclose \in BOOLEAN
    /\ ProgIdle
    /\ CtrIdle
    /\ call = NoCall
    /\ val = Null
    /\ shown = NotShown

call_option_err ==
    /\ call = NoCall
    /\ \E site \in Sites, fc \in FormatCalls :
          /\ call' = [op |-> "option_err", site |-> site, t |-> fc.t,
                      args |-> fc.args]
          /\ val' = option_err(site, fc.t, fc.args)
    /\ shown' = NotShown
    /\ UNCHANGED <<disclose, progVars, ctrs>>

call_option_err_bare ==
    /\ call = NoCall
    /\ \E site \in Sites, fc \in FormatCalls :
          /\ call' = [op |-> "option_err_bare", site |-> site, t |-> fc.t,
                      args |-> fc.args]
          /\ val' = option_err_bare(site, fc.t, fc.args)
    /\ shown' = NotShown
    /\ UNCHANGED <<disclose, progVars, ctrs>>

call_result_err ==
    /\ call = NoCall
    /\ \E site \in Sites, fc \in FormatCalls :
          /\ call' = [op |-> "result_err", site |-> site, t |-> fc.t,
                      args |-> fc.args]
          /\ val' = result_err(site, fc.t, fc.args)
    /\ shown' = NotShown
    /\ UNCHANGED <<disclose, progVars, ctrs>>

call_result_err_bare ==
    /\ call = NoCall
    /\ \E site \in Sites, fc \in FormatCalls :
          /\ call' = [op |-> "result_err_bare", site |-> site, t |-> fc.t,
                      args |-> fc.args]
          /\ val' = result_err_bare(site, fc.t, fc.args)
    /\ shown' = NotShown
    /\ UNCHANGED <<disclose, progVars, ctrs>>

call_from ==
    /\ call = NoCall
    /\ \E e \in IoErrors :
          /\ call' = [op |-> "from", err |-> e]
          /\ val' = from(e)
    /\ shown' = NotShown
    /\ UNCHANGED <<disclose, progVars, ctrs>>

call_error_demo ==
    /\ call = NoCall
    /\ \E b \in BOOLEAN :
          /\ call' = [op |-> "error_demo", bare |-> b]
          /\ val' = error_demo(b)
    /\ shown' = NotShown
    /\ UNCHANGED <<disclose, progVars, ctrs>>

\* format!("{}", e)
fmt_Display ==
    /\ val # Null
    /\ shown.display = Null
    /\ shown' = [shown EXCEPT !.display = Text(Display(ErrOf(val)))]
    /\ UNCHANGED <<disclose, progVars, ctrs, call, val>>

\* format!("{:?}", e)
fmt_Debug ==
    /\ val # Null
    /\ shown.debug = Null
    /\ shown' = [shown EXCEPT !.debug = Text(Debug(ErrOf(val)))]
    /\ UNCHANGED <<disclose, progVars, ctrs, call, val>>

\* e.source()
call_source ==
    /\ val # Null
    /\ shown.source = Null
    /\ shown' = [shown EXCEPT !.source = source(ErrOf(val))]
    /\ UNCHANGED <<disclose, progVars, ctrs, call, val>>

NextErr ==
    \/ call_option_err
    \/ call_option_err_bare
    \/ call_result_err
    \/ call_result_err_bare
    \/ call_from
    \/ call_error_demo
    \/ fmt_Display
    \/ fmt_Debug
    \/ call_source

SpecErr == InitErr /\ [][NextErr]_vars

(***************************************************************************)
(* Properties                                                              *)
(***************************************************************************)
DemoMessage == "Error thrown to demonstrate the error handling process"

\* "<file>:<line>:<col>: " of a call site
Loc(site) ==
    site.file \o ":" \o ToString(site.line) \o ":" \o ToString(site.column)
    \o ": "

\* the interpolated message of a macro call, template by template
Interpolated(c) ==
    CASE c.t = "{}" -> c.args[1]
      [] c.t = "Oh dear - {}" -> "Oh dear - " \o c.args[1]
      [] c.t = "{}: {}" -> c.args[1] \o ": " \o c.args[2]
      [] c.t = "No path specified" -> "No path specified"

StartsWith(s, prefix) ==
    /\ Len(s) >= Len(prefix)
    /\ SubSeq(s, 1, Len(prefix)) = prefix

Count(seq, x) == Cardinality({i \in DOMAIN seq : seq[i] = x})

Returned == pc \in {"try", "main", "done"}

\* ---- C1 ----------------------------------------------------------------
ExpectedCycles ==
    <<Header, "Cycle 1", "Cycle 2", "Cycle 3", "Cycle 4">>

\* C1: recursive_fail_demo on a fresh Counter prints the header and then
\* exactly Cycle 1 .. Cycle 4 in that order, returns the failure made at
\* counter value 5 after five next() calls, never calls next() again, never
\* prints a Cycle line for a value >= 5 and never returns Ok.
C1_FirstFailureStopsLoop ==
    argv.cmd = "recursive_fail" =>
        /\ Len(stdout) <= Len(ExpectedCycles)
        /\ \A i \in 1..Len(stdout) : stdout[i] = ExpectedCycles[i]
        /\ nexts <= 5
        /\ demo # Ok(Unit)
        /\ Returned =>
              /\ stdout = ExpectedCycles
              /\ nexts = 5
              /\ counter.count = 5
              /\ demo = Err(ErrorError("src/lib.rs:203:22: Failed at cycle 5"))

C1_Witness ==
    /\ argv.cmd = "recursive_fail"
    /\ pc = "done"
    /\ nexts = 5
    /\ stdout = ExpectedCycles

\* ---- C2 ----------------------------------------------------------------
ExpectedItem(k) ==
    IF k <= 4 THEN Some(Ok(k))
    ELSE IF k <= 11
    THEN Some(Err(ErrorError("src/lib.rs:203:22: Failed at cycle "
                             \o ToString(k))))
    ELSE None

\* C2: on a Counter started at 0, the k-th next() leaves count = k and
\* yields Ok(k) for k in 1..4, a failure naming k for every k in 5..11,
\* and no item from the 12th call on.
C2_KthCall ==
    \A i \in DOMAIN ctrs :
        LET items == ctrs[i].items
        IN  /\ \A k \in 1..Len(items) : items[k] = ExpectedItem(k)
            /\ ctrs[i].self.count =
                  (IF Len(items) <= 11 THEN Len(items) ELSE 11)

C2_Witness ==
    \E i \in DOMAIN ctrs :
        /\ Len(ctrs[i].items) = 12
        /\ ctrs[i].items[11].tag = "Some"
        /\ ctrs[i].items[12] = None

\* ---- C3 ----------------------------------------------------------------
\* C3: a bare macro gives a Custom error whose text is exactly the
\* interpolated message when the disclose flag is unset and
\* "<file>:<line>:<col>: <message>" when it is set; error_demo(true) and
\* error_demo(false) render the same message, with the location prefix
\* missing only for the bare one under an unset flag.
C3_BareFollowsFlag ==
    /\ call.op \in {"result_err_bare", "option_err_bare"} =>
          /\ val.tag = (IF call.op = "result_err_bare" THEN "Err" ELSE "Error")
          /\ ErrOf(val).tag = "Error"
          /\ shown.display # Null =>
                shown.display.text =
                    (IF disclose THEN Loc(call.site) ELSE "")
                    \o Interpolated(call)
    /\ (call.op = "error_demo" /\ shown.display # Null) =>
          shown.display.text =
              (IF call.bare
               THEN (IF disclose THEN "src/lib.rs:175:9: " ELSE "")
               ELSE "src/lib.rs:177:9: ")
              \o DemoMessage

C3_Witness ==
    /\ call.op = "result_err_bare"
    /\ ~disclose
    /\ call.t = "{}: {}"
    /\ shown.display # Null
    /\ shown.display.text = "x: :x"

\* ---- C4 ----------------------------------------------------------------
\* C4: whatever the disclose flag, a disclosed macro gives a Custom error
\* whose text is "<file>:<line>:<col>: <interpolated message>", and
\* result_err! gives the Err side of the Result.
C4_DisclosedAlwaysLocated ==
    call.op \in {"result_err", "option_err"} =>
        /\ val.tag = (IF call.op = "result_err" THEN "Err" ELSE "Error")
        /\ ErrOf(val).tag = "Error"
        /\ shown.display # Null =>
              shown.display.text = Loc(call.site) \o Interpolated(call)

C4_Witness ==
    /\ call.op = "result_err"
    /\ ~disclose
    /\ shown.display # Null
    /\ StartsWith(shown.display.text, "src/lib.rs:261:26: Oh dear - ")

\* ---- C5 ----------------------------------------------------------------
\* C5: for every Error value, Display and Debug give the same string: the
\* message for Custom, the platform error's display text for Wrapped.
C5_DisplayEqualsDebug ==
    (val # Null /\ shown.display # Null /\ shown.debug # Null) =>
        /\ shown.display.text = shown.debug.text
        /\ shown.display.text =
              (IF ErrOf(val).tag = "Error" THEN ErrOf(val).msg
               ELSE IoDisplay(ErrOf(val).cause))

\* ---- C6 ----------------------------------------------------------------
\* C6: source() is absent for a Custom value and is the platform error the
\* value was built from for a Wrapped one; every value built by a macro or
\* by error_demo is Custom and so has no cause.
C6_SourceIsCause ==
    /\ (call.op \notin {"none", "from"}) => ErrOf(val).tag = "Error"
    /\ (val # Null /\ shown.source # Null) =>
          IF ErrOf(val).tag = "Error"
          THEN shown.source = None
          ELSE /\ call.op = "from"
               /\ shown.source = Some(call.err)

C6_Witness ==
    /\ call.op = "from"
    /\ call.err = ENOENT
    /\ shown.source = Some(ENOENT)

\* ---- C7 ----------------------------------------------------------------
RECURSIVE Literal(_)
Literal(path) ==
    IF path = <<>> THEN "" ELSE Head(path) \o Literal(Tail(path))

ValidUtf8(path) == \A i \in DOMAIN path : path[i] # BadByte

BetterFailed ==
    /\ argv.cmd = "file_fail"
    /\ argv.better
    /\ Returned
    /\ opened.tag = "Err"

\* C7 as stated: the displayed message of file_fail_demo(true, path) on an
\* unopenable path starts with the path string, ": " and the platform
\* error message.
C7_StartsWithPath ==
    BetterFailed =>
        /\ demo.tag = "Err"
        /\ demo.error.tag = "Error"
        /\ StartsWith(Display(demo.error),
              to_string_lossy(argv.path) \o ": " \o IoDisplay(opened.error))

\* C7 amended: the displayed message is the location of the result_err!
\* call, "src/lib.rs:261:26: ", then the path rendered lossily (the path
\* itself when it is valid UTF-8, U+FFFD for each invalid byte), ": " and
\* the platform error message.
C7_LocationThenPath ==
    BetterFailed =>
        /\ demo.tag = "Err"
        /\ demo.error.tag = "Error"
        /\ demo.error.msg =
              "src/lib.rs:261:26: "
              \o (IF ValidUtf8(argv.path) THEN Literal(argv.path)
                  ELSE to_string_lossy(argv.path))
              \o ": " \o IoDisplay(opened.error)
        /\ pc = "done" => stderr = <<"tyg_template: " \o demo.error.msg>>

C7_Witness ==
    /\ BetterFailed
    /\ pc = "done"
    /\ argv.path = <<"/", "f">>
    /\ stderr = <<"tyg_template: src/lib.rs:261:26: /f: No such file or directory (os error 2)">>

\* ---- C8 ----------------------------------------------------------------
\* C8: file_fail_demo(false, path) on an unopenable path fails with the
\* Wrapped value holding the unchanged platform error, so what is displayed
\* is exactly the platform error's own message.
C8_PlainIsWrapped ==
    (argv.cmd = "file_fail" /\ ~argv.better /\ Returned
        /\ opened.tag = "Err") =>
        /\ demo = Err(ErrorFile(opened.error))
        /\ source(demo.error) = Some(opened.error)
        /\ pc = "done" =>
              stderr = <<"tyg_template: " \o IoDisplay(opened.error)>>

C8_Witness ==
    /\ argv.cmd = "file_fail"
    /\ ~argv.better
    /\ pc = "done"
    /\ opened = Err(ENOENT)
    /\ stderr = <<"tyg_template: No such file or directory (os error 2)">>

\* ---- C9 ----------------------------------------------------------------
\* C9: for fail (bare or not) and recursive_fail, run() returns an Error,
\* the "should not be displayed" line and the confirmation line are never
\* printed and the failure is printed once as "tyg_template: <display>";
\* for every command exactly one of the confirmation line and the
\* diagnostic line has been printed when the process ends, never both.
C9_OneOutcomeLine ==
    /\ argv.cmd \in {"fail", "recursive_fail"} =>
          /\ Count(stdout, NotDisplayed) = 0
          /\ Count(stdout, Completed) = 0
          /\ pc \in {"main", "done"} => answer.tag = "Err"
          /\ pc = "done" =>
                stderr = <<"tyg_template: " \o Display(answer.error)>>
    /\ argv.cmd \in {"fail", "recursive_fail", "file_fail"} =>
          /\ Count(stdout, Completed) + Len(stderr) <= 1
          /\ \A i \in DOMAIN stderr : StartsWith(stderr[i], "tyg_template: ")
          /\ pc = "done" => Count(stdout, Completed) + Len(stderr) = 1

C9_Witness ==
    /\ argv.cmd = "fail"
    /\ argv.bare
    /\ ~disclose
    /\ pc = "done"
    /\ stderr = <<"tyg_template: Error thrown to demonstrate the error handling process">>

\* ---- C10 ---------------------------------------------------------------
C10_Bounded == \A i \in DOMAIN ctrs : ctrs[i].self.count \in 0..11

C10_Step ==
    \A i \in DOMAIN ctrs :
        /\ ctrs'[i].self.count >= ctrs[i].self.count
        /\ (/\ Len(ctrs[i].items) > 0
            /\ ctrs[i].items[Len(ctrs[i].items)] = None
            /\ ctrs'[i] # ctrs[i]) =>
               /\ ctrs'[i].self = ctrs[i].self
               /\ ctrs'[i].items[Len(ctrs'[i].items)] = None

\* C10: under any sequence of next() calls 0 <= count <= 11 and count never
\* decreases; once next() has returned no item, every later call returns
\* no item and leaves count unchanged.
C10_ExhaustedStays == []C10_Bounded /\ [][C10_Step]_vars

C10_Witness ==
    \E i \in DOMAIN ctrs :
        /\ Len(ctrs[i].items) = 13
        /\ ctrs[i].items[12] = None
        /\ ctrs[i].items[13] = None
        /\ ctrs[i].self.count = 11

====
